---- MODULE Spec2Model ----
(***************************************************************************)
(* Coffee Roulette (src/script.js): balanced partition of a roster into    *)
(* groups, with the per-role quota of every group computed by a largest-   *)
(* remainder apportionment.                                                *)
(*                                                                         *)
(* People are identified by their position in the roster (1..n); a person's*)
(* role is people[p].  Group indices are the code's 0-based indices plus 1.*)
(***************************************************************************)
EXTENDS Integers, Sequences, FiniteSets, TLC

\* ------------------------------------------------------------------ bounds
MaxN == 5           \* longest roster of the click-to-result specification
MaxT == 9           \* largest population of the quota specification
MaxD == 4           \* largest desired group size typed into the form
MaxTieCells == 6    \* longest pairs array shuffled and sorted exhaustively

RoleNames == {"A", "B", "C"}

\* ------------------------------------------------------------- arithmetic
RECURSIVE SumSeq(_)
SumSeq(s) == IF s = <<>> THEN 0 ELSE Head(s) + SumSeq(Tail(s))

RECURSIVE Pow2(_)
Pow2(k) == IF k = 0 THEN 1 ELSE 2 * Pow2(k - 1)

RECURSIVE PowMod2(_, _)
PowMod2(k, m) == IF k = 0 THEN 1 % m ELSE (2 * PowMod2(k - 1, m)) % m

RECURSIVE Log2Ceil(_)
Log2Ceil(n) == IF n <= 1 THEN 0 ELSE 1 + Log2Ceil((n + 1) \div 2)

\* Math.round(num / den) for num >= 0, den > 0: the nearest integer, a half
\* going up (ECMAScript rounds x.5 towards +Infinity).
MathRoundHalfDown(num, den) == (2 * num + den - 1) \div (2 * den)
MathRound(num, den) == (2 * num + den) \div (2 * den)

Max(a, b) == IF a >= b THEN a ELSE b

\* ---------------------------------------------- IEEE-754 double remainders
\* The code computes q = (sizes[i] * totalR) / n in double precision and keeps
\* rem = q - Math.floor(q).  The product and the floor are exact, the division
\* is rounded to 53 significant bits, and the subtraction is exact, so
\*     rem = (a mod n)/n + err     with a = sizes[i] * totalR,
\* err being the rounding error of the division.  Two cells with the same
\* a mod n but different integer parts therefore carry different doubles.

\* The binary exponent e of a/n: 2^e <= a/n < 2^(e+1), for a >= 1.
RECURSIVE Exponent(_, _)
Exponent(a, n) ==
    IF a >= n THEN (IF a >= 2 * n THEN 1 + Exponent(a, 2 * n) ELSE 0)
    ELSE Exponent(2 * a, n) - 1

\* The rounding error of a/n in units of 1/(n * 2^(52-e)): with
\* a * 2^(52-e) = Q*n + R, round-to-nearest-even gives -R or n - R.
RoundErr(a, n) ==
    LET e == Exponent(a, n)
        R == ((a % n) * PowMod2(52 - e, n)) % n
        T == ((a % (4 * n)) * PowMod2(53 - e, 4 * n)) % (4 * n)
    IN  IF 2 * R < n THEN 0 - R
        ELSE IF 2 * R > n THEN n - R
        ELSE IF (T \div n) % 4 = 1 THEN 0 - R ELSE n - R

\* The double q - floor(q) for q = a/n, as a pair compared lexicographically:
\* <<a mod n, err scaled by a power of two common to all cells of one n>>.
Remainder(a, n) ==
    IF a = 0 THEN <<0, 0>>
    ELSE <<a % n, RoundErr(a, n) * Pow2(Exponent(a, n) + Log2Ceil(n))>>

RemLess(x, y) == x[1] < y[1] \/ (x[1] = y[1] /\ x[2] < y[2])

\* Math.floor((s * t) / n)
CeilQuota(s, t, n) == (s * t + n - 1) \div n
FloorQuota(s, t, n) == (s * t) \div n

\* ---------------------------------------------------------------- shuffle
\* The draws of one shuffleInPlace call on an array of length len: js[i] is
\* Math.floor(Math.random() * (i + 1)) at loop index i, a value in 0..i.
Draws(len) == {js \in [1 .. (len - 1) -> 0 .. (len - 1)] :
                 \A i \in 1 .. (len - 1) : js[i] <= i}

Swap(arr, x, y) == [arr EXCEPT ![x] = arr[y], ![y] = arr[x]]

RECURSIVE ShuffleFrom(_, _, _)
ShuffleFrom(arr, js, i) ==
    IF i < 1 THEN arr
    ELSE ShuffleFrom(Swap(arr, i + 1, js[i] + 1), js, i - 1)

shuffleInPlace(arr, js) == ShuffleFrom(arr, js, Len(arr) - 1)

\* ------------------------------------------------------ computeGroupSizes
NaN == [finite |-> FALSE, v |-> 0]
Num(k) == [finite |-> TRUE, v |-> k]

ErrGroupSize == "Group Size must be at least 2."
ErrNotInteger == "Group Size must be an integer (e.g., 4)."
ErrTooFew == "Need at least 2 people to form groups."
ErrInsufficient == "Internal error: insufficient people with role."
ErrSizes == "Internal allocation error: group sizes do not match targets."
ErrNotAll == "Internal allocation error: not all people were assigned exactly once."
NoError == ""

\* Line 68: !Number.isFinite(desiredGroupSize) || desiredGroupSize < 2
InvalidSizeBelowOne(desiredGroupSize) == ~desiredGroupSize.finite \/ desiredGroupSize.v < 1
InvalidSize(desiredGroupSize) == ~desiredGroupSize.finite \/ desiredGroupSize.v < 2

\* Line 76: (i < remainder ? 1 : 0), i being the code's 0-based index.
ExtraMemberOffByOne(i, remainder) == IF i <= remainder THEN 1 ELSE 0
ExtraMember(i, remainder) == IF i < remainder THEN 1 ELSE 0

computeGroupSizes(n, desiredGroupSize) ==
    IF InvalidSize(desiredGroupSize)
    THEN [threw |-> TRUE, sizes |-> <<>>]
    ELSE LET g == Max(1, MathRound(n, desiredGroupSize.v))
             base == n \div g
             remainder == n - base * g
         IN  [threw |-> FALSE,
              sizes |-> [i \in 1 .. g |-> base + ExtraMember(i - 1, remainder)]]

\* ------------------------------------------------------------------ state
VARIABLES
    groupSize,      \* parseInt(groupSizeInput.value, 10), or the argument of the call
    pc,             \* position in onGenerate / allocateGroups / computeRoleTargets
    people,         \* the parsed roster: people[p] is the role of person p
    n,              \* people.length
    sizes,          \* computeGroupSizes' result
    byRole,         \* role -> pool of people
    roles,          \* Object.keys(byRole), in insertion order
    countsByRole,   \* role -> number of people
    targets,        \* role -> per-group target
    extras,         \* role -> +1s still to place
    deficits,       \* per-group open seats
    pairs,          \* the (group, role, rem) cells as built, before the shuffle
    walked,         \* the cells of the shuffled, sorted array the walk has passed
    cursor,         \* loop index of the per-role shuffles
    groups,         \* the groups being filled
    annotated,      \* the flat <<person, role, group>> records
    errorBox,       \* the message shown, NoError when none
    results,        \* the groups rendered into the results container
    download        \* the records offered for download

vars == <<groupSize, pc, people, n, sizes, byRole, roles,
          countsByRole, targets, extras, deficits, pairs, walked, cursor,
          groups, annotated, errorBox, results, download>>

inputVars == <<groupSize>>
allocVars == <<people, n, sizes, byRole, roles, countsByRole>>
targetVars == <<targets, extras, deficits, pairs, walked>>
outputVars == <<groups, annotated, errorBox, results, download>>

Range(s) == {s[k] : k \in 1 .. Len(s)}

EmptyPools == [r \in RoleNames |-> <<>>]
NoCounts == [r \in RoleNames |-> 0]

\* ------------------------------------------------------ computeRoleTargets
\* Line 85: the n of computeRoleTargets is the sum of its sizes argument.
sizesTotal == SumSeq(sizes)

\* remainders[r][i] of the code (lines 97-100), from the call's arguments.
remainders(r, i) == Remainder(sizes[i] * countsByRole[r], sizesTotal)

\* Lines 93-104: the floors of one role.
FloorsOf(r) == [i \in 1 .. Len(sizes) |-> FloorQuota(sizes[i], countsByRole[r], sizesTotal)]

\* Lines 114-119: the cells, role by role, group by group.
RECURSIVE BuildPairs(_)
BuildPairs(rs) ==
    IF rs = <<>> THEN <<>>
    ELSE [i \in 1 .. Len(sizes) |->
            [i |-> i, r |-> Head(rs), rem |-> remainders(Head(rs), i)]]
         \o BuildPairs(Tail(rs))

\* Lines 93-110: the floors, each role's extras, each group's deficit.
FlooredCounters ==
    [targets |-> [r \in Range(roles) |-> FloorsOf(r)],
     extras |-> [r \in Range(roles) |-> countsByRole[r] - SumSeq(FloorsOf(r))],
     deficits |-> [i \in 1 .. Len(sizes) |->
                     sizes[i] - SumSeq([k \in 1 .. Len(roles) |-> FloorsOf(roles[k])[i]])]]

\* Lines 83-119: floors, extras, deficits and the unshuffled cells.
Floors ==
    /\ pc = "floors"
    /\ targets' = FlooredCounters.targets
    /\ extras' = FlooredCounters.extras
    /\ deficits' = FlooredCounters.deficits
    /\ pairs' = BuildPairs(roles)
    /\ walked' = {}
    /\ pc' = "greedy"
    /\ UNCHANGED <<inputVars, allocVars, cursor, outputVars>>

\* Line 122: pairs.sort((a, b) => b.rem - a.rem), a stable sort: a cell goes
\* behind every cell already placed whose rem is not smaller than its own.
RECURSIVE InsertByRem(_, _)
InsertByRem(sorted, c) ==
    IF sorted = <<>> THEN <<c>>
    ELSE IF RemLess(Head(sorted).rem, c.rem) THEN <<c>> \o sorted
    ELSE <<Head(sorted)>> \o InsertByRem(Tail(sorted), c)

RECURSIVE SortByRem(_)
SortByRem(arr) ==
    IF arr = <<>> THEN <<>>
    ELSE InsertByRem(SortByRem(SubSeq(arr, 1, Len(arr) - 1)), arr[Len(arr)])

\* Lines 121-122: the arrays the shuffle and the sort can leave.
SortedShuffles(arr) == {SortByRem(shuffleInPlace(arr, js)) : js \in Draws(Len(arr))}

\* Lines 121-122, shuffleInPlace(pairs) then pairs.sort by rem descending: the
\* outcome is a permutation of pairs with non-increasing rem in which cells of
\* equal rem stand in the order the shuffle left them.  The permutation is
\* resolved one position at a time, as the walk of line 124 reaches it: the
\* next cell is any cell not yet walked whose rem no other such cell exceeds.
Unwalked == Range(pairs) \ walked
NextCellsAnyOrder == Unwalked
NextCells == {c \in Unwalked : \A c2 \in Unwalked : ~RemLess(c.rem, c2.rem)}

\* Lines 125-126: the cell is bumped only when role and group both have room.
BumpAllowedIgnoringDeficit(ex, de) == ex > 0
BumpAllowedAtZero(ex, de) == ex >= 0 /\ de >= 0
BumpAllowed(ex, de) == ex > 0 /\ de > 0

\* The counters of computeRoleTargets as one value.
Counters == [targets |-> targets, extras |-> extras, deficits |-> deficits]

\* Lines 127-129 and 152-154.
BumpCellKeepingDeficit(st, r, i) ==
    [targets |-> [st.targets EXCEPT ![r][i] = @ + 1],
     extras |-> [st.extras EXCEPT ![r] = @ - 1],
     deficits |-> st.deficits]
BumpCell(st, r, i) ==
    [targets |-> [st.targets EXCEPT ![r][i] = @ + 1],
     extras |-> [st.extras EXCEPT ![r] = @ - 1],
     deficits |-> [st.deficits EXCEPT ![i] = @ - 1]]

\* Lines 125-129: the body of the walk for one cell.
VisitCell(st, p) ==
    IF BumpAllowed(st.extras[p.r], st.deficits[p.i]) THEN BumpCell(st, p.r, p.i) ELSE st

\* Lines 124-130 on a whole array.
RECURSIVE WalkAll(_, _)
WalkAll(st, arr) == IF arr = <<>> THEN st ELSE WalkAll(VisitCell(st, Head(arr)), Tail(arr))

SetCounters(st) ==
    /\ targets' = st.targets
    /\ extras' = st.extras
    /\ deficits' = st.deficits

\* Lines 124-130: one iteration of the walk; line 134 follows the last one.
GreedyStep ==
    /\ pc = "greedy"
    /\ Unwalked # {}
    /\ \E p \in NextCells :
         /\ walked' = walked \cup {p}
         /\ SetCounters(VisitCell(Counters, p))
         /\ pc' = IF Unwalked = {p} THEN "residual" ELSE "greedy"
    /\ UNCHANGED <<inputVars, allocVars, pairs, cursor, outputVars>>

\* Lines 138-150: the role chosen for group i, "" for null.
RECURSIVE BestRoleFrom(_, _, _)
BestRoleFrom(rs, i, best) ==
    IF rs = <<>> THEN best.role
    ELSE LET r == Head(rs)
             rem == remainders(r, i)
             better == \/ best.none
                       \/ RemLess(best.rem, rem)
                       \/ (rem = best.rem /\ extras[r] > best.extras)
         IN  IF extras[r] > 0 /\ better
             THEN BestRoleFrom(Tail(rs), i,
                     [none |-> FALSE, role |-> r, rem |-> rem, extras |-> extras[r]])
             ELSE BestRoleFrom(Tail(rs), i, best)

BestRole(i) ==
    BestRoleFrom(roles, i, [none |-> TRUE, role |-> "", rem |-> <<0, 0>>, extras |-> 0 - 1])

SumOver(f, S) == SumSeq([k \in 1 .. Len(S) |-> f[S[k]]])
remainingDeficit == SumSeq(deficits)
totalExtras == SumOver(extras, roles)

\* Lines 134-164, one bump at a time.  The for loop fills group 0 until its
\* deficit is 0, then group 1, ...: each bump goes to the first group with a
\* deficit left.  A role with extras left is a candidate for every group, so
\* when the first such group finds none, no group does: the pass then leaves
\* through the safety valve of line 160, or spins when extras do not sum to 0.
ResidualStep ==
    /\ pc = "residual"
    /\ IF remainingDeficit > 0
       THEN LET i == CHOOSE k \in 1 .. Len(sizes) :
                        deficits[k] > 0 /\ \A m \in 1 .. (k - 1) : deficits[m] <= 0
            IN  IF BestRole(i) # ""
                THEN SetCounters(BumpCell(Counters, BestRole(i), i)) /\ pc' = "residual"
                ELSE /\ UNCHANGED <<targets, extras, deficits>>
                     /\ pc' = IF totalExtras = 0 THEN "assign" ELSE "residual"
       ELSE UNCHANGED <<targets, extras, deficits>> /\ pc' = "assign"
    /\ UNCHANGED <<inputVars, allocVars, pairs, walked, cursor, outputVars>>

\* ---------------------------------------------------------- allocateGroups
\* Lines 173-177: the people of role r, in roster order.
PoolOf(ps, r) == SelectSeq([p \in 1 .. Len(ps) |-> p], LAMBDA p : ps[p] = r)

\* Object.keys(byRole): the roles in order of first appearance.
RECURSIVE KeysOf(_, _)
KeysOf(ps, seen) ==
    IF ps = <<>> THEN <<>>
    ELSE IF Head(ps) \in seen THEN KeysOf(Tail(ps), seen)
    ELSE <<Head(ps)>> \o KeysOf(Tail(ps), seen \cup {Head(ps)})

\* Lines 169-177: the sizes, then the pools.  A throw of computeGroupSizes
\* leaves allocateGroups and is caught by onGenerate (lines 329-331).
AllocEnter ==
    /\ pc = "allocate"
    /\ n' = Len(people)
    /\ LET cs == computeGroupSizes(Len(people), groupSize)
       IN  IF cs.threw
           THEN /\ errorBox' = ErrGroupSize
                /\ pc' = "done"
                /\ UNCHANGED <<sizes, byRole, roles, countsByRole, cursor>>
           ELSE /\ sizes' = cs.sizes
                /\ byRole' = [r \in RoleNames |-> PoolOf(people, r)]
                /\ roles' = KeysOf(people, {})
                /\ countsByRole' = [r \in RoleNames |-> Len(PoolOf(people, r))]
                /\ cursor' = 1
                /\ pc' = "shuffle"
                /\ UNCHANGED errorBox
    /\ UNCHANGED <<inputVars, people, targetVars, groups, annotated, results, download>>

\* Line 178: shuffleInPlace on the pool of one role per step, in key order;
\* lines 180-183 follow the last one.
ShufflePool ==
    /\ pc = "shuffle"
    /\ \E js \in Draws(Len(byRole[roles[cursor]])) :
         byRole' = [byRole EXCEPT ![roles[cursor]] = shuffleInPlace(@, js)]
    /\ cursor' = cursor + 1
    /\ pc' = IF cursor = Len(roles) THEN "floors" ELSE "shuffle"
    /\ UNCHANGED <<inputVars, people, n, sizes, roles, countsByRole, targetVars, outputVars>>

\* Lines 190-200 for one role: the people pushed to group gi are the next
\* targets[r][gi] of the pool after those taken by the groups before it.
TakenBefore(r, gi) == SumSeq(SubSeq(targets[r], 1, gi - 1))
SliceReusingPool(r, gi) == SubSeq(byRole[r], 1, targets[r][gi])
Slice(r, gi) == SubSeq(byRole[r], TakenBefore(r, gi) + 1, TakenBefore(r, gi) + targets[r][gi])

\* Line 194: the cursor runs past the pool.
Exhausted(r) == SumSeq(targets[r]) > Len(byRole[r])

RECURSIVE Concat(_)
Concat(ss) == IF ss = <<>> THEN <<>> ELSE Head(ss) \o Concat(Tail(ss))

\* Lines 188-203: the targets are consumed role by role, in key order.
Assign ==
    /\ pc = "assign"
    /\ IF \E k \in 1 .. Len(roles) : Exhausted(roles[k])
       THEN /\ errorBox' = ErrInsufficient
            /\ pc' = "done"
            /\ UNCHANGED <<groups, byRole>>
       ELSE /\ groups' = [gi \in 1 .. Len(sizes) |->
                            Concat([k \in 1 .. Len(roles) |-> Slice(roles[k], gi)])]
            /\ byRole' = [r \in RoleNames |->
                            IF r \in Range(roles)
                            THEN SubSeq(byRole[r], SumSeq(targets[r]) + 1, Len(byRole[r]))
                            ELSE byRole[r]]
            /\ pc' = "leftovers"
            /\ UNCHANGED errorBox
    /\ UNCHANGED <<inputVars, people, n, sizes, roles, countsByRole, targetVars, cursor,
                   annotated, results, download>>

\* Lines 211-215: groups short of their size take from the end of leftovers.
RECURSIVE FillFrom(_, _, _)
FillFrom(gs, left, gi) ==
    IF gi > Len(gs) \/ left = <<>> THEN gs
    ELSE IF Len(gs[gi]) < sizes[gi]
         THEN FillFrom([gs EXCEPT ![gi] = Append(@, left[Len(left)])],
                       SubSeq(left, 1, Len(left) - 1), gi)
         ELSE FillFrom(gs, left, gi + 1)

\* Lines 206-215: what the pools still hold is shuffled and spread.
Leftovers ==
    /\ pc = "leftovers"
    /\ LET leftovers == Concat([k \in 1 .. Len(roles) |-> byRole[roles[k]]])
       IN  \E js \in Draws(Len(leftovers)) :
             groups' = FillFrom(groups, shuffleInPlace(leftovers, js), 1)
    /\ pc' = "sanity"
    /\ UNCHANGED <<inputVars, allocVars, targetVars, cursor, annotated, errorBox,
                   results, download>>

\* Lines 229-234: <<person, role, 1-based group>> group by group.
Annotate(gs) ==
    Concat([gi \in 1 .. Len(gs) |->
              [k \in 1 .. Len(gs[gi]) |-> <<gs[gi][k], people[gs[gi][k]], gi>>]])

\* Lines 218-236: the sanity checks, then the records and the return.
SanityAndReturn ==
    /\ pc = "sanity"
    /\ IF \E gi \in 1 .. Len(sizes) : Len(groups[gi]) # sizes[gi]
       THEN errorBox' = ErrSizes /\ pc' = "done" /\ UNCHANGED annotated
       ELSE IF SumSeq([gi \in 1 .. Len(groups) |-> Len(groups[gi])]) # n
       THEN errorBox' = ErrNotAll /\ pc' = "done" /\ UNCHANGED annotated
       ELSE annotated' = Annotate(groups) /\ pc' = "render" /\ UNCHANGED errorBox
    /\ UNCHANGED <<inputVars, allocVars, targetVars, cursor, groups, results, download>>

\* -------------------------------------------------------------- onGenerate
Rosters == UNION {[1 .. k -> RoleNames] : k \in 0 .. MaxN}
GroupSizeValues == {NaN} \cup {Num(k) : k \in 0 .. MaxD}

\* Lines 309-326: a click on Generate with what was typed into the cleared
\* form: h says whether the text starts with a "Name,Role" header line, rows
\* are the roles of its other lines (names are free text).  parseInt gives NaN
\* or an integer; parseRoster (lines 23-56) throws on fewer than two non-empty
\* lines and drops the header.  Every row typed has a name and a role.
OnGenerate ==
    /\ pc = "idle"
    /\ \E h \in BOOLEAN, rows \in Rosters, gs \in GroupSizeValues :
         /\ groupSize' = gs
         /\ IF ~gs.finite
            THEN errorBox' = ErrNotInteger /\ pc' = "done" /\ people' = <<>>
            ELSE IF Len(rows) + (IF h THEN 1 ELSE 0) < 2
            THEN errorBox' = ErrTooFew /\ pc' = "done" /\ people' = <<>>
            ELSE errorBox' = NoError /\ pc' = "allocate" /\ people' = rows
    /\ n' = 0
    /\ sizes' = <<>>
    /\ byRole' = EmptyPools
    /\ roles' = <<>>
    /\ countsByRole' = NoCounts
    /\ targets' = <<>>
    /\ extras' = <<>>
    /\ deficits' = <<>>
    /\ pairs' = <<>>
    /\ walked' = {}
    /\ cursor' = 0
    /\ groups' = <<>>
    /\ annotated' = <<>>
    /\ results' = <<>>
    /\ download' = <<>>

\* Lines 327-328: renderResults and buildDownload.
Render ==
    /\ pc = "render"
    /\ results' = groups
    /\ download' = annotated
    /\ pc' = "done"
    /\ UNCHANGED <<inputVars, allocVars, targetVars, cursor, groups, annotated, errorBox>>

\* Lines 334-345: a click on Clear empties the form and every output (the
\* locals of the finished call are gone with it).
OnClear ==
    /\ pc = "done"
    /\ groupSize' = Num(4)
    /\ errorBox' = NoError
    /\ results' = <<>>
    /\ download' = <<>>
    /\ pc' = "idle"
    /\ people' = <<>>
    /\ n' = 0
    /\ sizes' = <<>>
    /\ byRole' = EmptyPools
    /\ roles' = <<>>
    /\ countsByRole' = NoCounts
    /\ targets' = <<>>
    /\ extras' = <<>>
    /\ deficits' = <<>>
    /\ pairs' = <<>>
    /\ walked' = {}
    /\ cursor' = 0
    /\ groups' = <<>>
    /\ annotated' = <<>>

\* The page after DOMContentLoaded: nothing typed, nothing shown.
Init ==
    /\ groupSize = Num(4)
    /\ pc = "idle"
    /\ people = <<>>
    /\ n = 0
    /\ sizes = <<>>
    /\ byRole = EmptyPools
    /\ roles = <<>>
    /\ countsByRole = NoCounts
    /\ targets = <<>>
    /\ extras = <<>>
    /\ deficits = <<>>
    /\ pairs = <<>>
    /\ walked = {}
    /\ cursor = 0
    /\ groups = <<>>
    /\ annotated = <<>>
    /\ errorBox = NoError
    /\ results = <<>>
    /\ download = <<>>

Next ==
    \/ OnGenerate
    \/ AllocEnter
    \/ ShufflePool
    \/ Floors
    \/ GreedyStep
    \/ ResidualStep
    \/ Assign
    \/ Leftovers
    \/ SanityAndReturn
    \/ Render
    \/ OnClear

Spec == Init /\ [][Next]_vars

\* ------------------------------------------------- the quota computation
\* allocateGroups up to the return of computeRoleTargets (lines 169-183) for
\* a roster given by its role counts: computeGroupSizes and computeRoleTargets
\* read only the roster's length and the number of people of each role.
RoleOrder == <<"A", "B", "C">>

InitQuota ==
    /\ \E nn \in 1 .. MaxT, k \in 1 .. Len(RoleOrder), d \in 1 .. MaxD :
         \E cs \in [1 .. k -> 1 .. MaxT] :
           /\ SumSeq(cs) = nn
           /\ n = nn
           /\ groupSize = Num(d)
           /\ roles = SubSeq(RoleOrder, 1, k)
           /\ countsByRole = [r \in RoleNames |->
                                IF \E j \in 1 .. k : RoleOrder[j] = r
                                THEN cs[CHOOSE j \in 1 .. k : RoleOrder[j] = r]
                                ELSE 0]
    /\ pc = "quota"
    /\ people = <<>>
    /\ sizes = <<>>
    /\ byRole = EmptyPools
    /\ targets = <<>>
    /\ extras = <<>>
    /\ deficits = <<>>
    /\ pairs = <<>>
    /\ walked = {}
    /\ cursor = 0
    /\ groups = <<>>
    /\ annotated = <<>>
    /\ errorBox = NoError
    /\ results = <<>>
    /\ download = <<>>

\* Line 170, and the throw of line 69 propagating out of allocateGroups.
QuotaEnter ==
    /\ pc = "quota"
    /\ LET cs == computeGroupSizes(n, groupSize)
       IN  IF cs.threw
           THEN errorBox' = ErrGroupSize /\ pc' = "done" /\ UNCHANGED sizes
           ELSE sizes' = cs.sizes /\ pc' = "floors" /\ UNCHANGED errorBox
    /\ UNCHANGED <<inputVars, people, n, byRole, roles, countsByRole, targetVars, cursor,
                   groups, annotated, results, download>>

NextQuota ==
    \/ QuotaEnter
    \/ Floors
    \/ GreedyStep
    \/ ResidualStep

SpecQuota == InitQuota /\ [][NextQuota]_vars

\* ================================================================= claims
ValidSize == groupSize.finite /\ groupSize.v >= 2
SizesComputed ==
    pc \in {"shuffle", "floors", "greedy", "residual", "assign", "leftovers", "sanity", "render"}
Floored == pc \in {"greedy", "residual", "assign", "leftovers", "sanity", "render"}
TargetsReturned == pc \in {"assign", "leftovers", "sanity", "render"}

GroupIdx == 1 .. Len(sizes)
RoleKeys == Range(roles)
RowSum(i) == SumSeq([k \in 1 .. Len(roles) |-> targets[roles[k]][i]])

\* Every ideal quota sizes[i] * T_r / n is an integer.
AllIntegral == \A r \in RoleKeys : \A i \in GroupIdx : (sizes[i] * countsByRole[r]) % n = 0

\* The floor of the ideal quota of a cell.
FloorOfQuota(r, i) == CHOOSE f \in 0 .. n : f * n <= sizes[i] * countsByRole[r]
                                          /\ sizes[i] * countsByRole[r] < (f + 1) * n

\* The arrangements of a set of cells, and those whose rems do not increase.
RECURSIVE PermsOf(_)
PermsOf(S) == IF S = {} THEN {<<>>}
              ELSE UNION {{<<x>> \o q : q \in PermsOf(S \ {x})} : x \in S}

NonIncreasingOrders(arr) ==
    {o \in PermsOf(Range(arr)) : \A k \in 1 .. (Len(o) - 1) : ~RemLess(o[k].rem, o[k + 1].rem)}

\* The call with roles {A:5, B:4} and capacities [3,3,3].
FiveFour ==
    /\ n = 9 /\ roles = <<"A", "B">> /\ countsByRole["A"] = 5 /\ countsByRole["B"] = 4
    /\ sizes = <<3, 3, 3>>

\* allocateGroups has returned its groups and records.
AllocReturned == pc = "render" \/ (pc = "done" /\ errorBox = NoError)
Occurrences(seq, x) == Cardinality({k \in 1 .. Len(seq) : seq[k] = x})

\* C1: for n >= 2 and a finite desired size >= 2, computeGroupSizes returns a
\* non-empty sequence of integers >= 1 that sum to n and differ by at most 1.
C1_SizesEven ==
    (SizesComputed /\ n >= 2 /\ ValidSize) =>
        /\ Len(sizes) >= 1
        /\ SumSeq(sizes) = n
        /\ \A i \in GroupIdx : sizes[i] \in 1 .. n
        /\ \A i, j \in GroupIdx : sizes[i] - sizes[j] <= 1

C1_Witness ==
    SizesComputed /\ n = 7 /\ groupSize = Num(3) /\ Len(sizes) = 2 /\ sizes[1] # sizes[2]

\* C7: computeGroupSizes(n, d) has g = max(1, round-half-up(n / d)) entries,
\* the first n - floor(n/g)*g of them floor(n/g) + 1 and the others floor(n/g);
\* so (2,2) gives [2], (7,3) gives [4,3] and (5,2) gives [2,2,1].
C7_SizesReference ==
    (SizesComputed /\ ValidSize) =>
        LET d == groupSize.v
            \* the integer k nearest to n/d, a half going up: k - 1/2 <= n/d < k + 1/2
            k == CHOOSE k \in 0 .. n : (2 * k - 1) * d <= 2 * n /\ 2 * n < (2 * k + 1) * d
            g == IF k < 1 THEN 1 ELSE k
            base == CHOOSE b \in 0 .. n : b * g <= n /\ n < (b + 1) * g
            remainder == n - base * g
        IN  /\ Len(sizes) = g
            /\ \A i \in 1 .. g : sizes[i] = (IF i <= remainder THEN base + 1 ELSE base)
            /\ \A i \in 1 .. (g - 1) : sizes[i] >= sizes[i + 1]
            /\ (n = 2 /\ d = 2) => sizes = <<2>>
            /\ (n = 7 /\ d = 3) => sizes = <<4, 3>>
            /\ (n = 5 /\ d = 2) => sizes = <<2, 2, 1>>

C7_Witness == SizesComputed /\ n = 5 /\ groupSize = Num(2) /\ sizes = <<2, 2, 1>>

\* C2: with matching sums, the table computeRoleTargets returns has non-negative
\* integer entries, every group's entries sum to its capacity and every role's
\* entries sum to the role's count, whatever the tie-break.
C2_TableSums ==
    (TargetsReturned /\ SumSeq(sizes) = SumOver(countsByRole, roles)) =>
        /\ \A r \in RoleKeys : \A i \in GroupIdx : targets[r][i] \in Nat
        /\ \A i \in GroupIdx : RowSum(i) = sizes[i]
        /\ \A r \in RoleKeys : SumSeq(targets[r]) = countsByRole[r]

C2_Witness ==
    /\ pc = "assign"
    /\ Len(roles) = 3 /\ Len(sizes) = 3
    /\ \E r \in RoleKeys : \E i \in GroupIdx : (sizes[i] * countsByRole[r]) % n # 0

\* C6: when every ideal quota sizes[i] * T_r / n is an integer, neither pass
\* bumps a cell and the table returned holds exactly the ideal quotas; 9 people
\* with roles {A:6, B:3} and desired size 3 give every group A:2, B:1.
C6_IntegralQuotas ==
    /\ (Floored /\ AllIntegral) =>
          /\ \A r \in RoleKeys : \A i \in GroupIdx : targets[r][i] * n = sizes[i] * countsByRole[r]
          /\ \A r \in RoleKeys : extras[r] = 0
          /\ \A i \in GroupIdx : deficits[i] = 0
    /\ (TargetsReturned /\ n = 9 /\ groupSize = Num(3) /\ roles = <<"A", "B">>
          /\ countsByRole["A"] = 6 /\ countsByRole["B"] = 3) =>
          /\ sizes = <<3, 3, 3>>
          /\ targets["A"] = <<2, 2, 2>>
          /\ targets["B"] = <<1, 1, 1>>

C6_Witness ==
    /\ pc = "assign" /\ n = 9 /\ groupSize = Num(3) /\ roles = <<"A", "B">>
    /\ countsByRole["A"] = 6 /\ countsByRole["B"] = 3
    /\ walked = Range(pairs) /\ Len(pairs) = 6

\* C8: every entry of the table is floor(q) or floor(q) + 1 of its ideal quota
\* q = sizes[i] * T_r / n: no cell is bumped twice over the two passes.
C8_QuotaRule ==
    Floored => \A r \in RoleKeys : \A i \in GroupIdx :
                  targets[r][i] \in {FloorOfQuota(r, i), FloorOfQuota(r, i) + 1}

\* C9: after flooring, extras and deficits stay non-negative with equal totals;
\* a group with a deficit always finds a role with extras; the function
\* returns with every extra and every deficit 0.
C9_ExtrasMatchDeficits ==
    (Floored /\ SumSeq(sizes) = SumOver(countsByRole, roles)) =>
        /\ \A r \in RoleKeys : extras[r] >= 0
        /\ \A i \in GroupIdx : deficits[i] >= 0
        /\ SumOver(extras, roles) = SumSeq(deficits)
        /\ (\E i \in GroupIdx : deficits[i] > 0) => (\E r \in RoleKeys : extras[r] > 0)
        /\ TargetsReturned => /\ \A r \in RoleKeys : extras[r] = 0
                              /\ \A i \in GroupIdx : deficits[i] = 0

\* The residual pass has placed a unit (so the walk left one unplaced).
C9_Witness ==
    /\ pc = "assign"
    /\ \E r \in RoleKeys : \E i \in GroupIdx : targets[r][i] >= FloorOfQuota(r, i) + 2

\* C10: the walk visits the cells in non-increasing order of rem, and cells
\* of exactly equal rem in any relative order: shuffle-then-stable-sort leaves
\* every arrangement of the cells whose rems do not increase.  For roles
\* {A:5, B:4} and capacities [3,3,3] every table has two groups A:2,B:1 and one
\* group A:1,B:2, and each group can be the one without the extra A.
C10_TieBreak ==
    /\ Floored =>
          \A w \in walked : \A u \in Unwalked : ~RemLess(w.rem, u.rem)
    /\ (pc = "greedy" /\ walked = {} /\ Len(pairs) <= MaxTieCells) =>
          SortedShuffles(pairs) = NonIncreasingOrders(pairs)
    /\ (pc = "greedy" /\ walked = {} /\ FiveFour) =>
          {WalkAll(Counters, o).targets["A"] : o \in SortedShuffles(pairs)}
              = {<<1, 2, 2>>, <<2, 1, 2>>, <<2, 2, 1>>}
    /\ (TargetsReturned /\ FiveFour) =>
          /\ targets["A"] \in {<<1, 2, 2>>, <<2, 1, 2>>, <<2, 2, 1>>}
          /\ \A i \in GroupIdx : targets["B"][i] = 3 - targets["A"][i]

C10_Witness == pc = "assign" /\ FiveFour /\ targets["A"] = <<1, 2, 2>>

\* C3: when allocateGroups returns, every person of the roster (by position)
\* stands in exactly one group, exactly once, nobody else stands in a group,
\* and group i has sizes[i] members, sizes being computeGroupSizes(n, d).
C3_Partition ==
    AllocReturned =>
        /\ \A p \in 1 .. Len(people) : Occurrences(Concat(groups), p) = 1
        /\ \A k \in 1 .. Len(Concat(groups)) : Concat(groups)[k] \in 1 .. Len(people)
        /\ sizes = computeGroupSizes(Len(people), groupSize).sizes
        /\ Len(groups) = Len(sizes)
        /\ \A i \in 1 .. Len(groups) : Len(groups[i]) = sizes[i]
        /\ \A k \in 1 .. Len(annotated) : annotated[k][2] = people[annotated[k][1]]

C3_Witness ==
    /\ pc = "render"
    /\ Len(people) = 4 /\ Len(groups) = 2
    /\ people[1] = people[2]
    /\ 1 \in Range(groups[2]) /\ 2 \in Range(groups[1])

====
